---- MODULE Spec2Model ----
(***************************************************************************)
(* A model of the RAG application: the text pipeline (clean_text,          *)
(* chunk_text, extract_keywords), the ChromaDB-backed RetrievalService,    *)
(* the DocumentService ingestion path and the FastAPI handlers of main.py. *)
(*                                                                         *)
(* Texts are sequences of one-character strings.  Similarities, distances  *)
(* and the similarity threshold are kept in tenths (0.7 is 7), so that the *)
(* arithmetic of 1 - distance stays in the integers.                       *)
(***************************************************************************)
EXTENDS Integers, Sequences, FiniteSets, TLC

(***************************************************************************)
(* Bounds of the model.                                                    *)
(***************************************************************************)
MaxRecords == 3      \* records one collection may hold
MaxCollections == 3  \* collections created over one run
MaxK == 2            \* largest n_results a query asks for
MaxCallers == 3      \* processes inside _get_or_create_collection at once
MaxTextLen == 4      \* longest text drawn character by character
MaxWords == 3        \* most words of a text drawn word by word
MaxKeywords == 3     \* largest max_keywords extract_keywords is called with
\* settings.chunk_size and settings.chunk_overlap, scaled down to the texts of
\* the model (the defaults are 1000 and 200).
chunk_size == 3
chunk_overlap == 1

(***************************************************************************)
(* Characters.                                                             *)
(***************************************************************************)
Letters == {"a", "b", "A", "t", "h", "e"}
Digits == {"1"}
Whitespace == {" ", "\n"}
Punctuation == {"."}
\* Characters the allow-list of clean_text keeps: \w, \s and the punctuation.
Allowed == Letters \cup Digits \cup Whitespace \cup Punctuation

Min(a, b) == IF a <= b THEN a ELSE b
Abs(a) == IF a >= 0 THEN a ELSE 0 - a

\* xs without the elements that fail Keep, order kept.
RECURSIVE SelectIdx(_, _)
SelectIdx(n, keep) ==
    IF n = 0 THEN <<>>
    ELSE IF n \in keep THEN Append(SelectIdx(n - 1, keep), n)
         ELSE SelectIdx(n - 1, keep)

Pick(xs, keep) == LET idx == SelectIdx(Len(xs), keep) IN [i \in 1..Len(idx) |-> xs[idx[i]]]

RECURSIVE Flatten(_)
Flatten(xss) == IF xss = <<>> THEN <<>> ELSE Head(xss) \o Flatten(Tail(xss))

\* str.strip(): leading and trailing whitespace removed.
Strip(t) ==
    LET ns == {i \in 1..Len(t) : t[i] \notin Whitespace}
    IN IF ns = {} THEN <<>>
       ELSE LET lo == CHOOSE i \in ns : \A j \in ns : i <= j
                hi == CHOOSE i \in ns : \A j \in ns : j <= i
            IN SubSeq(t, lo, hi)

(***************************************************************************)
(* TextProcessor.clean_text                                                *)
(***************************************************************************)
\* re.sub(r'\s+', ' ', text): every maximal run of whitespace becomes one space.
CollapseWhitespace(t) ==
    LET keep == {i \in 1..Len(t) :
                    t[i] \notin Whitespace \/ i = 1 \/ t[i - 1] \notin Whitespace}
        kept == Pick(t, keep)
    IN [i \in 1..Len(kept) |-> IF kept[i] \in Whitespace THEN " " ELSE kept[i]]

\* re.sub(r'\n+', '\n', text): every maximal run of newlines becomes one newline.
CollapseNewlines(t) ==
    Pick(t, {i \in 1..Len(t) : t[i] # "\n" \/ i = 1 \/ t[i - 1] # "\n"})

\* re.sub(r'[^\w\s.,!?;:\-()\[\]{}"\']+', '', text): other characters deleted.
RemoveSpecial(t) == Pick(t, {i \in 1..Len(t) : t[i] \in Allowed})

clean_text(text) == RemoveSpecial(Strip(CollapseNewlines(CollapseWhitespace(text))))

(***************************************************************************)
(* TextProcessor.chunk_text: RecursiveCharacterTextSplitter with the       *)
(* separators "\n\n", "\n", " ", "" (keep_separator and strip_whitespace   *)
(* at their defaults), followed by clean_text of every non-blank chunk.    *)
(***************************************************************************)
\* The separators as a variant would have them: without the last, empty
\* separator, so that a part without a blank is never split further.
SeparatorsNoChar == << <<"\n", "\n">>, <<"\n">>, <<" ">> >>

Separators == << <<"\n", "\n">>, <<"\n">>, <<" ">>, <<>> >>

\* The first position where sep occurs in t, or 0.
FirstOcc(t, sep) ==
    LET occ == {i \in 1..(Len(t) - Len(sep) + 1) : SubSeq(t, i, i + Len(sep) - 1) = sep}
    IN IF occ = {} THEN 0 ELSE CHOOSE i \in occ : \A j \in occ : i <= j

\* re.split(sep, t): the parts between the non-overlapping occurrences of sep.
RECURSIVE RawSplit(_, _)
RawSplit(t, sep) ==
    LET i == FirstOcc(t, sep)
    IN IF i = 0 THEN <<t>>
       ELSE <<SubSeq(t, 1, i - 1)>> \o RawSplit(SubSeq(t, i + Len(sep), Len(t)), sep)

\* _split_text_with_regex with keep_separator: each separator stays at the
\* start of the part that follows it; empty parts are dropped.
SplitWithRegex(t, sep) ==
    LET parts == RawSplit(t, sep)
        splits == IF sep = <<>> THEN [i \in 1..Len(t) |-> <<t[i]>>]
                  ELSE [i \in 1..Len(parts) |-> IF i = 1 THEN parts[1] ELSE sep \o parts[i]]
    IN Pick(splits, {i \in 1..Len(splits) : splits[i] # <<>>})

\* _join_docs with the separator "": the parts joined and stripped.
JoinDocs(cur) == Strip(Flatten(cur))

\* The while loop of _merge_splits: parts leave the front of the current
\* chunk until what is left fits the overlap and leaves room for the next part.
RECURSIVE PopFront(_, _, _)
PopFront(cur, total, len) ==
    IF total > chunk_overlap \/ (total + len > chunk_size /\ total > 0)
    THEN PopFront(Tail(cur), total - Len(Head(cur)), len)
    ELSE [cur |-> cur, total |-> total]

RECURSIVE MergeLoop(_, _, _, _, _)
MergeLoop(splits, i, docs, cur, total) ==
    IF i > Len(splits)
    THEN IF JoinDocs(cur) = <<>> THEN docs ELSE Append(docs, JoinDocs(cur))
    ELSE LET d == splits[i]
             flush == total + Len(d) > chunk_size /\ Len(cur) > 0
             docs2 == IF flush /\ JoinDocs(cur) # <<>> THEN Append(docs, JoinDocs(cur)) ELSE docs
             left == IF flush THEN PopFront(cur, total, Len(d))
                     ELSE [cur |-> cur, total |-> total]
         IN MergeLoop(splits, i + 1, docs2, Append(left.cur, d), left.total + Len(d))

MergeSplits(splits) == MergeLoop(splits, 1, <<>>, <<>>, 0)

\* The index in seps of the separator _split_text settles on: the first that
\* is "" or occurs in the text.
RECURSIVE SeparatorIndex(_, _, _)
SeparatorIndex(t, seps, i) ==
    IF i >= Len(seps) \/ seps[i] = <<>> \/ FirstOcc(t, seps[i]) # 0 THEN i
    ELSE SeparatorIndex(t, seps, i + 1)

RECURSIVE SplitText(_, _)
RECURSIVE SplitLoop(_, _, _, _, _)
SplitLoop(splits, i, good, final, rest) ==
    IF i > Len(splits)
    THEN IF good = <<>> THEN final ELSE final \o MergeSplits(good)
    ELSE LET s == splits[i]
         IN IF Len(s) < chunk_size
            THEN SplitLoop(splits, i + 1, Append(good, s), final, rest)
            ELSE LET flushed == IF good = <<>> THEN final ELSE final \o MergeSplits(good)
                     more == IF rest = <<>> THEN <<s>> ELSE SplitText(s, rest)
                 IN SplitLoop(splits, i + 1, <<>>, flushed \o more, rest)

SplitText(t, seps) ==
    LET k == SeparatorIndex(t, seps, 1)
        rest == IF seps[k] = <<>> THEN <<>> ELSE SubSeq(seps, k + 1, Len(seps))
    IN SplitLoop(SplitWithRegex(t, seps[k]), 1, <<>>, <<>>, rest)

chunk_text(text) ==
    LET chunks == SplitText(text, Separators)
        kept == Pick(chunks, {i \in 1..Len(chunks) : Strip(chunks[i]) # <<>>})
    IN [i \in 1..Len(kept) |-> clean_text(kept[i])]

(***************************************************************************)
(* TextProcessor.extract_keywords                                          *)
(***************************************************************************)
Lower(c) == IF c = "A" THEN "a" ELSE c

\* The stop words of three letters or more (a shorter word is never a token).
StopWords ==
    {<<"t", "h", "e">>,
     <<"a", "n", "d">>,
     <<"b", "u", "t">>,
     <<"f", "o", "r">>,
     <<"w", "i", "t", "h">>,
     <<"a", "r", "e">>,
     <<"w", "a", "s">>,
     <<"w", "e", "r", "e">>,
     <<"b", "e", "e", "n">>,
     <<"h", "a", "v", "e">>,
     <<"h", "a", "s">>,
     <<"h", "a", "d">>,
     <<"d", "o", "e", "s">>,
     <<"d", "i", "d">>,
     <<"w", "i", "l", "l">>,
     <<"w", "o", "u", "l", "d">>,
     <<"c", "o", "u", "l", "d">>,
     <<"s", "h", "o", "u", "l", "d">>,
     <<"m", "a", "y">>,
     <<"m", "i", "g", "h", "t">>,
     <<"c", "a", "n">>,
     <<"t", "h", "i", "s">>,
     <<"t", "h", "a", "t">>,
     <<"t", "h", "e", "s", "e">>,
     <<"t", "h", "o", "s", "e">>}

\* re.findall(r'\b[a-zA-Z]{3,}\b', text.lower()): the maximal runs of word
\* characters that are letters only and at least three long, in text order.
Tokens(text) ==
    LET t == [i \in 1..Len(text) |-> Lower(text[i])]
        IsWord(i) == t[i] \in Letters \cup Digits
        starts == {i \in 1..Len(t) : IsWord(i) /\ (i = 1 \/ ~IsWord(i - 1))}
        EndOf(i) == CHOOSE j \in i..Len(t) :
                        /\ \A m \in i..j : IsWord(m)
                        /\ (j = Len(t) \/ ~IsWord(j + 1))
        ok == {i \in starts : /\ EndOf(i) - i + 1 >= 3
                              /\ \A m \in i..EndOf(i) : t[m] \in Letters}
        idx == SelectIdx(Len(t), ok)
    IN [n \in 1..Len(idx) |-> SubSeq(t, idx[n], EndOf(idx[n]))]

\* The ranking as a bug would have it: the distinct words in the order of
\* their first occurrence, the frequencies not looked at.
SortedWordsUnsorted(words) ==
    Pick(words, {i \in 1..Len(words) : \A j \in 1..(i - 1) : words[j] # words[i]})

\* sorted(word_freq.items(), key=frequency, reverse=True): the distinct words
\* by descending frequency, a tie keeping the order of first occurrence.
SortedWords(words) ==
    LET Freq(w) == Cardinality({i \in 1..Len(words) : words[i] = w})
        firsts == {i \in 1..Len(words) : \A j \in 1..(i - 1) : words[j] # words[i]}
        Before(i, j) == \/ Freq(words[i]) > Freq(words[j])
                        \/ Freq(words[i]) = Freq(words[j]) /\ i < j
        Rank(i) == 1 + Cardinality({j \in firsts : Before(j, i)})
    IN [r \in 1..Cardinality(firsts) |-> words[CHOOSE i \in firsts : Rank(i) = r]]

extract_keywords(text, max_keywords) ==
    LET toks == Tokens(text)
        keywords == Pick(toks, {i \in 1..Len(toks) : toks[i] \notin StopWords})
        sorted_words == SortedWords(keywords)
    IN SubSeq(sorted_words, 1, Min(max_keywords, Len(sorted_words)))

(***************************************************************************)
(* The embedding provider and the distance of the index.  A vector is      *)
(* modelled by a direction 0..3; the index reports the distance of two     *)
(* vectors in tenths, so the similarities that occur are 1.0, 0.9, 0.5     *)
(* and -0.2.                                                               *)
(***************************************************************************)
\* EmbeddingService.generate_embeddings: one vector per text, in order.
Embedding(text) == Min(Cardinality({i \in 1..Len(text) : Lower(text[i]) = "b"}), 3)

generate_embeddings(texts) == [i \in 1..Len(texts) |-> Embedding(texts[i])]

\* EmbeddingService.generate_embedding: generate_embeddings([text])[0].
generate_embedding(text) == generate_embeddings(<<text>>)[1]

DistanceTable == <<0, 1, 5, 12>>

Distance(u, v) == DistanceTable[Abs(u - v) + 1]

(***************************************************************************)
(* Metadata values carry their Python type: an int, a str or a list.       *)
(***************************************************************************)
IntValue(n) == [kind |-> "int", value |-> n]
StrValue(t) == [kind |-> "str", value |-> t]
ListValue(xs) == [kind |-> "list", value |-> xs]

\* ", ".join(map(str, value))
RECURSIVE JoinComma(_)
JoinComma(xs) ==
    IF xs = <<>> THEN <<>>
    ELSE IF Len(xs) = 1 THEN xs[1]
    ELSE xs[1] \o <<",", " ">> \o JoinComma(Tail(xs))

\* The loop as a bug would have it: the metadata is passed on as it came.
SanitizeNone(metadata) == metadata

\* The metadata sanitizing loop of add_documents: a list becomes one string.
Sanitize(metadata) ==
    [key \in DOMAIN metadata |->
        IF metadata[key].kind = "list" THEN StrValue(JoinComma(metadata[key].value))
        ELSE metadata[key]]

\* The metadata _process_document builds for chunk i of a file (upload_time,
\* a clock reading, is left out).
ChunkMetadata(filename, file_size, chunks, i) ==
    [filename |-> IntValue(filename),
     file_size |-> IntValue(file_size),
     total_chunks |-> IntValue(Len(chunks)),
     chunk_index |-> IntValue(i - 1),
     chunk_text_length |-> IntValue(Len(chunks[i])),
     keywords |-> ListValue(extract_keywords(chunks[i], 5))]

(***************************************************************************)
(* The vector store.  A collection is known by its id; every collection    *)
(* carries the one configured name (settings.collection_name).  A handle   *)
(* is the id of the collection it was obtained for, and an operation       *)
(* through the handle of a collection that no longer exists raises.        *)
(***************************************************************************)
CollectionIds == 1..(MaxCollections + 1)

\* client.get_collection(name): the collection of that name, or NotFoundError.
GetCollection(colls) ==
    IF colls = {} THEN [raised |-> TRUE, collection |-> 0]
    ELSE [raised |-> FALSE, collection |-> CHOOSE c \in colls : \A d \in colls : c <= d]

\* client.create_collection(name): a new, empty collection; raises when a
\* collection of that name exists.
CreateCollection(colls, n) ==
    IF colls # {} THEN [raised |-> TRUE, collection |-> 0, collections |-> colls]
    ELSE [raised |-> FALSE, collection |-> n + 1, collections |-> colls \cup {n + 1}]

\* delete_collection as a bug would have it: success is reported and the
\* collection stays.
DeleteCollectionKept(colls) ==
    IF colls = {} THEN [raised |-> TRUE, collections |-> colls]
    ELSE [raised |-> FALSE, collections |-> colls]

\* client.delete_collection(name): the collection goes with its records;
\* raises when there is none.
DeleteCollection(colls) ==
    IF colls = {} THEN [raised |-> TRUE, collections |-> colls]
    ELSE [raised |-> FALSE, collections |-> {}]

\* The ids as a bug would have them: numbered from 1 in every batch.
NewIdsPerBatch(n, used) == [i \in 1..n |-> i]

\* ids = [str(uuid.uuid4()) for _ in chunks]: n identifiers, distinct from each
\* other and from every identifier in used (a random UUID repeats none).
RECURSIVE NewIds(_, _)
NewIds(n, used) ==
    IF n = 0 THEN <<>>
    ELSE LET id == CHOOSE i \in 1..(Cardinality(used) + 1) : i \notin used
         IN <<id>> \o NewIds(n - 1, used \cup {id})

\* collection.add as a bug would have it: only the first chunk is stored.
CollectionAddFirst(recs, documents, embeddings, metadatas, ids) ==
    IF ids = <<>> THEN recs
    ELSE Append(recs, [id |-> ids[1], document |-> documents[1],
                       embedding |-> IF embeddings = <<>> THEN 0 ELSE embeddings[1],
                       metadata |-> metadatas[1]])

\* collection.add as a bug would have it: an upsert by content, a record of
\* the same text being replaced by the new one.
CollectionAddUpsert(recs, documents, embeddings, metadatas, ids) ==
    LET new == [i \in 1..Len(ids) |->
                   [id |-> ids[i], document |-> documents[i],
                    embedding |-> IF i <= Len(embeddings) THEN embeddings[i] ELSE 0,
                    metadata |-> metadatas[i]]]
        texts == {documents[i] : i \in 1..Len(documents)}
    IN Pick(recs, {j \in 1..Len(recs) : recs[j].document \notin texts}) \o new

\* collection.add: one record per chunk, appended; an id the collection
\* already holds is skipped by the store.
CollectionAdd(recs, documents, embeddings, metadatas, ids) ==
    LET have == {recs[j].id : j \in 1..Len(recs)}
        new == [i \in 1..Len(ids) |->
                   [id |-> ids[i], document |-> documents[i],
                    embedding |-> IF i <= Len(embeddings) THEN embeddings[i] ELSE 0,
                    metadata |-> metadatas[i]]]
    IN recs \o Pick(new, {i \in 1..Len(new) : new[i].id \notin have})

\* Whether the index positions idx are a nearest-first answer of size n:
\* distinct records, distances ascending, no omitted record nearer than a
\* returned one.
IsNearest(recs, q, idx) ==
    LET D(j) == Distance(q, recs[j].embedding)
    IN /\ \A a, b \in 1..Len(idx) : a < b => idx[a] # idx[b] /\ D(idx[a]) <= D(idx[b])
       /\ \A j \in 1..Len(recs) :
              (\A a \in 1..Len(idx) : idx[a] # j) => \A a \in 1..Len(idx) : D(idx[a]) <= D(j)

\* collection.query(query_embeddings=[q], n_results=k): the answers the index
\* may give, each min(k, count) records with their distances, nearest first
\* (the order among records at equal distance is the index's choice).
CollectionQuery(recs, q, k) ==
    LET n == Min(k, Len(recs))
    IN {[i \in 1..n |-> [id |-> recs[idx[i]].id, document |-> recs[idx[i]].document,
                         metadata |-> recs[idx[i]].metadata,
                         distance |-> Distance(q, recs[idx[i]].embedding)]] :
           idx \in {x \in [1..n -> 1..Len(recs)] : IsNearest(recs, q, x)}}

\* The filter as a bug would have it: similarity must exceed the threshold.
RetrievedDocsStrict(results, threshold) ==
    LET docs == [i \in 1..Len(results) |->
                    [content |-> results[i].document,
                     metadata |-> results[i].metadata,
                     similarity_score |-> 10 - results[i].distance]]
    IN Pick(docs, {i \in 1..Len(docs) : docs[i].similarity_score > threshold})

\* The loop as a bug would have it: each kept document is put in front.
RetrievedDocsFront(results, threshold) ==
    LET docs == [i \in 1..Len(results) |->
                    [content |-> results[i].document,
                     metadata |-> results[i].metadata,
                     similarity_score |-> 10 - results[i].distance]]
        kept == Pick(docs, {i \in 1..Len(docs) : docs[i].similarity_score >= threshold})
    IN [i \in 1..Len(kept) |-> kept[Len(kept) + 1 - i]]

\* The loop as a bug would have it: the comparison is turned around, and a
\* record is kept when its similarity does not exceed the threshold.
RetrievedDocsInverted(results, threshold) ==
    LET docs == [i \in 1..Len(results) |->
                    [content |-> results[i].document,
                     metadata |-> results[i].metadata,
                     similarity_score |-> 10 - results[i].distance]]
    IN Pick(docs, {i \in 1..Len(docs) : docs[i].similarity_score <= threshold})

\* The loop of retrieve_documents over the answer of the index: similarity is
\* 1 - distance, and a record is kept when it reaches the threshold.
RetrievedDocs(results, threshold) ==
    LET docs == [i \in 1..Len(results) |->
                    [content |-> results[i].document,
                     metadata |-> results[i].metadata,
                     similarity_score |-> 10 - results[i].distance]]
    IN Pick(docs, {i \in 1..Len(docs) : docs[i].similarity_score >= threshold})

(***************************************************************************)
(* The inputs of the model.                                                *)
(***************************************************************************)
\* The uploaded files, as the text extracted from them: empty, blank, only
\* characters clean_text deletes, one chunk, two chunks, one chunk far from
\* the queries.
Files ==
    << <<>>, <<" ", "\n">>, <<"@">>, <<"a">>, <<"a", "b", " ", "b">>, <<"b", "b", "b">> >>

Queries == {<<"a">>, <<"b", "b">>}

\* settings.similarity_threshold in tenths: 0.2 (config.py), 0.7
\* (config_simple.py), 0, and 0.5, a similarity that occurs.
Thresholds == {0, 2, 5, 7}

max_file_size == 10 * 1024 * 1024

\* The processes that call _get_or_create_collection at the same time.
Callers == 1..MaxCallers

VARIABLES
    collections,          \* the ids of the collections the store holds
    records,              \* records[c]: the records of collection c, in insertion order
    made,                 \* collections created so far
    dsCollection,         \* document_service.retrieval_service.collection
    rsCollection,         \* retrieval_service.collection
    similarity_threshold, \* settings.similarity_threshold, in tenths
    req,                  \* the request the event loop is handling
    resp,                 \* the response to the last request, until the next one starts
    removed,              \* the ids of the records deleted with their collection
    ingested,             \* ingested[c]: the chunks add_documents was given for c and stored
    caller,               \* caller[p]: process p inside _get_or_create_collection
    input,                \* the text a function of TextProcessor is called with
    output                \* what the last call of a function of TextProcessor returned

vars == <<collections, records, made, dsCollection, rsCollection,
          similarity_threshold, req, resp, removed, ingested, caller, input, output>>

Idle ==
    [op |-> "idle", todo |-> <<>>, text |-> <<>>, k |-> 0, include_sources |-> FALSE,
     chunks |-> <<>>, metadata_list |-> <<>>, embeddings |-> <<>>, chunk_ids |-> <<>>,
     before |-> [c \in CollectionIds |-> <<>>], embedded |-> FALSE]

NoResponse ==
    [op |-> "none", status |-> "none", failure |-> "none", text |-> <<>>, k |-> 0,
     chunk_count |-> 0, chunk_ids |-> <<>>, raw |-> <<>>, retrieved |-> <<>>,
     sources |-> <<>>, total_documents |-> 0,
     before |-> [c \in CollectionIds |-> <<>>], embedded |-> FALSE]

\* No function of TextProcessor has been called.
NoOutput ==
    [op |-> "none", cleaned |-> <<>>, again |-> <<>>, chunks |-> <<>>,
     keywords |-> <<>>, max_keywords |-> 0]

\* The ids of the records of collection c.
IdsOf(recs) == {recs[i].id : i \in 1..Len(recs)}

\* Every id stored so far, in a live collection or a deleted one.
StoredIds == removed \cup UNION {IdsOf(records[c]) : c \in CollectionIds}

(***************************************************************************)
(* RetrievalService._get_or_create_collection, run without interruption:   *)
(* get_collection, and create_collection when that raised NotFoundError.   *)
(* An error of create_collection is not caught.                            *)
(***************************************************************************)
GetOrCreateCollection(colls, n) ==
    LET got == GetCollection(colls)
        new == CreateCollection(colls, n)
    IN IF ~got.raised
       THEN [raised |-> FALSE, collection |-> got.collection, collections |-> colls, made |-> n]
       ELSE [raised |-> new.raised, collection |-> new.collection,
             collections |-> new.collections, made |-> IF new.raised THEN n ELSE n + 1]

\* add_documents as a bug would have it: the write before the embedding call.
add_documents_write_first == <<"add", "embed">>

\* The steps of add_documents and of retrieve_documents, in program order.
add_documents_steps == <<"embed", "add">>
retrieve_documents_steps == <<"embed", "query">>

\* The checks as a bug would have them: an empty text or chunk list goes on.
ProcessOutcomeUnchecked(text) ==
    IF Len(text) > max_file_size THEN "too_large" ELSE "ok"

\* What process_uploaded_file and _process_document make of the file's text
\* before anything is embedded or stored.
ProcessOutcome(text) ==
    IF Len(text) > max_file_size THEN "too_large"
    ELSE IF Strip(text) = <<>> THEN "no_text"
    ELSE IF chunk_text(clean_text(text)) = <<>> THEN "no_chunks"
    ELSE "ok"

\* retrieve_documents as a bug would have it: an exception is swallowed and
\* an empty list returned.
RetrieveOutcomeSwallowed(embedOk, queryOk, results) ==
    IF embedOk /\ queryOk
    THEN [raised |-> FALSE,
          docs |-> RetrievedDocs(results, similarity_threshold)]
    ELSE [raised |-> FALSE, docs |-> <<>>]

\* retrieve_documents as a bug would have it: finding nothing is an error.
RetrieveOutcomeNoneFound(embedOk, queryOk, results) ==
    LET docs == RetrievedDocs(results, similarity_threshold)
    IN IF embedOk /\ queryOk /\ docs # <<>>
       THEN [raised |-> FALSE, docs |-> docs]
       ELSE [raised |-> TRUE, docs |-> <<>>]

\* What retrieve_documents gives its caller: the kept documents, or an
\* exception when the embedding call or the index query raised.
RetrieveOutcome(embedOk, queryOk, results) ==
    IF embedOk /\ queryOk
    THEN [raised |-> FALSE,
          docs |-> RetrievedDocs(results, similarity_threshold)]
    ELSE [raised |-> TRUE, docs |-> <<>>]

(***************************************************************************)
(* Init: the state once main.py has built its services on an empty         *)
(* persist directory.  DocumentService() creates the collection and        *)
(* RetrievalService() gets it; both hold a handle to collection 1.         *)
(***************************************************************************)
Init ==
    /\ collections = {1}
    /\ records = [c \in CollectionIds |-> <<>>]
    /\ made = 1
    /\ dsCollection = 1
    /\ rsCollection = 1
    /\ similarity_threshold \in Thresholds
    /\ req = Idle
    /\ resp = NoResponse
    /\ removed = {}
    /\ ingested = [c \in CollectionIds |-> <<>>]
    /\ caller = [p \in Callers |-> [pc |-> "idle", collection |-> 0]]
    /\ input = <<>>
    /\ output = NoOutput

(***************************************************************************)
(* POST /upload: upload_document, process_uploaded_file and                *)
(* _process_document up to the call of add_documents.                      *)
(***************************************************************************)
UploadDocument(f) ==
    LET text == Files[f]
        outcome == ProcessOutcome(text)
        chunks == chunk_text(clean_text(text))
    IN /\ req.op = "idle"
       /\ IF outcome # "ok"
          THEN /\ resp' = [NoResponse EXCEPT !.op = "upload", !.status = "error",
                                             !.failure = outcome, !.text = text,
                                             !.before = records]
               /\ req' = req
          ELSE /\ Len(records[dsCollection]) + Len(chunks) <= MaxRecords
               /\ req' = [Idle EXCEPT !.op = "upload", !.todo = add_documents_steps,
                                      !.text = text, !.chunks = chunks,
                                      !.metadata_list =
                                          [i \in 1..Len(chunks) |->
                                              ChunkMetadata(f, Len(text), chunks, i)],
                                      !.before = records]
               /\ resp' = NoResponse
       /\ UNCHANGED <<collections, records, made, dsCollection, rsCollection,
                      similarity_threshold, removed, ingested, caller, input, output>>

\* The response of an upload whose add_documents returned.
UploadDone(r) ==
    [NoResponse EXCEPT !.op = "upload", !.status = "ok", !.text = r.text,
                       !.chunk_count = Len(r.chunks), !.chunk_ids = r.chunk_ids,
                       !.before = r.before, !.embedded = r.embedded]

\* The response of a request that ended in an exception.
Failed(r, failure) ==
    [NoResponse EXCEPT !.op = r.op, !.status = "error", !.failure = failure,
                       !.text = r.text, !.k = r.k, !.before = r.before,
                       !.embedded = r.embedded]

\* The response of query_documents to what retrieve_documents gave it: an
\* error when retrieve_documents raised or the language model failed on the
\* retrieved documents, the answer and the sources otherwise.  failure
\* records which call failed.
QueryResponse(r, out, results, failure, generated) ==
    LET status == IF out.raised \/ (out.docs # <<>> /\ ~generated) THEN "error" ELSE "ok"
    IN [NoResponse EXCEPT
           !.op = "query", !.status = status,
           !.failure = IF failure # "none" THEN failure
                       ELSE IF status = "error" THEN "generation" ELSE "none",
           !.text = r.text, !.k = r.k, !.raw = results,
           !.retrieved = IF out.raised THEN <<>> ELSE out.docs,
           !.sources = IF status = "ok" /\ r.include_sources THEN out.docs ELSE <<>>,
           !.before = r.before, !.embedded = r.embedded]

(***************************************************************************)
(* EmbeddingService.generate_embeddings, called for the chunks of an       *)
(* upload or (through generate_embedding) for the text of a query.  The    *)
(* provider answers or fails; a failure ends the request.                  *)
(***************************************************************************)
GenerateEmbeddings ==
    /\ req.op \in {"upload", "query"}
    /\ Head(req.todo) = "embed"
    /\ \E ok \in BOOLEAN :
          LET texts == IF req.op = "upload" THEN req.chunks ELSE <<req.text>>
              r == [req EXCEPT !.embeddings = generate_embeddings(texts),
                               !.embedded = TRUE, !.todo = Tail(req.todo)]
          IN IF ~ok
             THEN /\ resp' = IF req.op = "upload"
                              THEN Failed([req EXCEPT !.embedded = TRUE], "embedding")
                              ELSE QueryResponse([req EXCEPT !.embedded = TRUE],
                                                 RetrieveOutcome(FALSE, TRUE, <<>>),
                                                 <<>>, "embedding", TRUE)
                  /\ req' = Idle
             ELSE IF r.todo = <<>>
             THEN /\ resp' = UploadDone(r)
                  /\ req' = Idle
             ELSE /\ req' = r
                  /\ resp' = resp
    /\ UNCHANGED <<collections, records, made, dsCollection, rsCollection,
                   similarity_threshold, removed, ingested, caller, input, output>>

(***************************************************************************)
(* The rest of add_documents: the ids, the sanitized metadata and          *)
(* collection.add through the handle of the DocumentService.               *)
(***************************************************************************)
IndexAdd ==
    /\ req.op = "upload"
    /\ Head(req.todo) = "add"
    /\ \E ok \in BOOLEAN :
          LET ids == NewIds(Len(req.chunks), StoredIds)
              metadatas == [i \in 1..Len(req.metadata_list) |->
                               Sanitize(req.metadata_list[i])]
              r == [req EXCEPT !.chunk_ids = ids, !.todo = Tail(req.todo)]
          IN IF ~ok \/ dsCollection \notin collections
             THEN /\ resp' = Failed(req, "index")
                  /\ req' = Idle
                  /\ records' = records
                  /\ ingested' = ingested
             ELSE /\ records' = [records EXCEPT ![dsCollection] =
                                    CollectionAdd(@, req.chunks, req.embeddings,
                                                  metadatas, ids)]
                  /\ ingested' = [ingested EXCEPT ![dsCollection] = @ \o req.chunks]
                  /\ IF r.todo = <<>>
                     THEN resp' = UploadDone(r) /\ req' = Idle
                     ELSE resp' = resp /\ req' = r
    /\ UNCHANGED <<collections, made, dsCollection, rsCollection,
                   similarity_threshold, removed, caller, input, output>>

(***************************************************************************)
(* POST /query: query_documents up to the call of retrieve_documents.      *)
(***************************************************************************)
QueryDocuments(q, k, include_sources) ==
    /\ req.op = "idle"
    /\ req' = [Idle EXCEPT !.op = "query", !.todo = retrieve_documents_steps,
                           !.text = q, !.k = k, !.include_sources = include_sources,
                           !.before = records]
    /\ resp' = NoResponse
    /\ UNCHANGED <<collections, records, made, dsCollection, rsCollection,
                   similarity_threshold, removed, ingested, caller, input, output>>

(***************************************************************************)
(* The rest of retrieve_documents (collection.query through the handle of  *)
(* main's RetrievalService, the threshold filter) and of query_documents   *)
(* (the answer of the language model when something was retrieved).        *)
(***************************************************************************)
IndexQuery ==
    /\ req.op = "query"
    /\ Head(req.todo) = "query"
    /\ \E ok \in BOOLEAN, generated \in BOOLEAN :
       \E results \in CollectionQuery(records[rsCollection], req.embeddings[1], req.k) :
          LET queryOk == ok /\ rsCollection \in collections
              out == RetrieveOutcome(TRUE, queryOk, results)
          IN resp' = QueryResponse(req, out, IF queryOk THEN results ELSE <<>>,
                                   IF queryOk THEN "none" ELSE "index", generated)
    /\ req' = Idle
    /\ UNCHANGED <<collections, records, made, dsCollection, rsCollection,
                   similarity_threshold, removed, ingested, caller, input, output>>

(***************************************************************************)
(* GET /documents/stats: get_collection_stats answers the count, or an     *)
(* error dictionary from which the handler reads a count of 0.             *)
(***************************************************************************)
GetDocumentStats ==
    /\ req.op = "idle"
    /\ \E ok \in BOOLEAN :
          resp' = [NoResponse EXCEPT
                      !.op = "stats", !.status = "ok",
                      !.failure = IF ok /\ rsCollection \in collections
                                  THEN "none" ELSE "index",
                      !.total_documents = IF ok /\ rsCollection \in collections
                                          THEN Len(records[rsCollection]) ELSE 0,
                      !.before = records]
    /\ UNCHANGED <<collections, records, made, dsCollection, rsCollection,
                   similarity_threshold, req, removed, ingested, caller, input, output>>

(***************************************************************************)
(* DELETE /documents: delete_collection, and when it succeeded the handle  *)
(* of main's RetrievalService is replaced by _get_or_create_collection.    *)
(***************************************************************************)
ClearAllDocuments ==
    /\ req.op = "idle"
    /\ made < MaxCollections
    /\ \E ok \in BOOLEAN :
          LET del == DeleteCollection(collections)
              success == ok /\ ~del.raised
              gone == collections \ del.collections
              ens == GetOrCreateCollection(del.collections, made)
          IN IF ~success
             THEN /\ resp' = [NoResponse EXCEPT !.op = "clear", !.status = "error",
                                                !.failure = "index"]
                  /\ UNCHANGED <<collections, records, made, rsCollection, removed,
                                 ingested>>
             ELSE /\ removed' = removed \cup UNION {IdsOf(records[c]) : c \in collections}
                  /\ records' = [c \in CollectionIds |->
                                    IF c \in gone THEN <<>> ELSE records[c]]
                  /\ ingested' = [c \in CollectionIds |->
                                     IF c \in gone THEN <<>> ELSE ingested[c]]
                  /\ collections' = ens.collections
                  /\ made' = ens.made
                  /\ rsCollection' = IF ens.raised THEN rsCollection ELSE ens.collection
                  /\ resp' = [NoResponse EXCEPT
                                 !.op = "clear",
                                 !.status = IF ens.raised THEN "error" ELSE "ok",
                                 !.failure = IF ens.raised THEN "index" ELSE "none"]
    /\ UNCHANGED <<dsCollection, similarity_threshold, req, caller, input, output>>

Next ==
    \/ \E f \in 1..Len(Files) : UploadDocument(f)
    \/ GenerateEmbeddings
    \/ IndexAdd
    \/ \E q \in Queries, k \in 1..MaxK, s \in BOOLEAN : QueryDocuments(q, k, s)
    \/ IndexQuery
    \/ GetDocumentStats
    \/ ClearAllDocuments

Spec == Init /\ [][Next]_vars

(***************************************************************************)
(* The claims checked under Spec.                                          *)
(***************************************************************************)
\* retrieve_documents returned (the language model may still have failed).
Retrieved == resp.op = "query" /\ resp.failure \in {"none", "generation"}

Similarity(result) == 10 - result.distance

\* The n-th smallest element of a set of naturals.
NthOf(S, n) == CHOOSE i \in S : Cardinality({j \in S : j < i}) = n - 1

IsPrefix(xs, ys) == Len(xs) <= Len(ys) /\ SubSeq(ys, 1, Len(xs)) = xs

\* C1: retrieve returns exactly the records, among those the index returned,
\* whose similarity 1 - distance is at least the threshold: each such record
\* is returned with its content, metadata and similarity, and no other is.
C1_ThresholdFilterExact ==
    Retrieved =>
        LET Q == {i \in 1..Len(resp.raw) : Similarity(resp.raw[i]) >= similarity_threshold}
        IN /\ Len(resp.retrieved) = Cardinality(Q)
           /\ \A n \in 1..Len(resp.retrieved) :
                 LET r == resp.raw[NthOf(Q, n)]
                 IN resp.retrieved[n] = [content |-> r.document, metadata |-> r.metadata,
                                         similarity_score |-> Similarity(r)]

\* Similarities 0.9 and 0.5 came back against the threshold 0.7 and one
\* document was returned; or a similarity equal to the threshold was kept.
C1_Witness ==
    /\ Retrieved
    /\ \/ /\ similarity_threshold = 7
          /\ {Similarity(resp.raw[i]) : i \in 1..Len(resp.raw)} = {9, 5}
          /\ Len(resp.retrieved) = 1
       \/ /\ similarity_threshold = 5
          /\ \E i \in 1..Len(resp.raw) : Similarity(resp.raw[i]) = 5
          /\ \E n \in 1..Len(resp.retrieved) : resp.retrieved[n].similarity_score = 5

\* C2: the embedding call of add_documents comes before any write: as long
\* as an upload has not had its embeddings, and when its embedding call has
\* failed, every collection holds the records it held when the request
\* came in, and the failure is answered with an error.
C2_EmbeddingFailureWritesNothing ==
    /\ (req.op = "upload" /\ ~req.embedded) => records = req.before
    /\ (resp.op = "upload" /\ resp.failure = "embedding") =>
           resp.status = "error" /\ records = resp.before

\* The embedding call of a two-chunk upload into a collection with a record
\* failed.
C2_Witness ==
    /\ resp.op = "upload" /\ resp.failure = "embedding"
    /\ Len(chunk_text(clean_text(resp.text))) = 2
    /\ Len(records[dsCollection]) = 1

\* C4: after delete_collection succeeded the handle main.py obtains is that
\* of a new, empty collection, and no record deleted with a collection is in
\* a collection, in the answer of the index to a query, or counted by stats.
C4_NoResurrection ==
    /\ \A c \in CollectionIds : IdsOf(records[c]) \cap removed = {}
    /\ (resp.op = "clear" /\ resp.status = "ok") =>
           rsCollection \in collections /\ records[rsCollection] = <<>>
    /\ resp.op = "query" => \A i \in 1..Len(resp.raw) : resp.raw[i].id \notin removed
    /\ (resp.op = "stats" /\ resp.failure = "none") =>
           resp.total_documents =
               Cardinality(IdsOf(records[rsCollection]) \ removed)

\* Records were deleted with their collection, and a query was answered
\* afterwards.
C4_Witness ==
    /\ removed # {}
    /\ resp.op = "query" /\ resp.status = "ok"

\* C5: an upload whose text is empty or gives no chunks is answered with an
\* error, without a call of the embedding provider and with every
\* collection as it was; no upload with an empty chunk list goes on to
\* add_documents.
C5_EmptyDocumentRejected ==
    /\ req.op = "upload" => req.chunks # <<>>
    /\ (resp.op = "upload" /\ chunk_text(clean_text(resp.text)) = <<>>) =>
           /\ resp.status = "error"
           /\ ~resp.embedded
           /\ resp.chunk_ids = <<>>
           /\ records = resp.before

\* A text with nothing but characters clean_text deletes was uploaded: it is
\* not blank, and gives no chunk.
C5_Witness ==
    /\ resp.op = "upload" /\ resp.failure = "no_chunks"
    /\ Strip(resp.text) # <<>>

\* C6: the documents retrieve returns are in order of non-increasing
\* similarity.
C6_RetrievalOrdered ==
    Retrieved =>
        \A a, b \in 1..Len(resp.retrieved) :
            a < b => resp.retrieved[a].similarity_score >= resp.retrieved[b].similarity_score

\* Two documents of different similarity were returned.
C6_Witness ==
    /\ Retrieved
    /\ Len(resp.retrieved) = 2
    /\ resp.retrieved[1].similarity_score > resp.retrieved[2].similarity_score

\* C7, as claimed: with threshold 0 and k at least the number n of chunks
\* added to the empty collection, retrieve returns n documents.
C7_RoundTripAnySimilarity ==
    (Retrieved /\ similarity_threshold = 0 /\ resp.k >= Len(ingested[rsCollection])) =>
        Len(resp.retrieved) = Len(ingested[rsCollection])

\* C7, amended: with threshold 0 and k at least the number n of chunks added
\* to the empty collection, a retrieve that succeeds returns n documents, one
\* for each chunk, when no chunk has a negative similarity to the query.
C7_RoundTripNonNegative ==
    LET added == ingested[rsCollection]
    IN (/\ Retrieved
        /\ similarity_threshold = 0
        /\ resp.k >= Len(added)
        /\ \A i \in 1..Len(added) :
               Distance(generate_embedding(resp.text), Embedding(added[i])) <= 10) =>
           /\ Len(resp.retrieved) = Len(added)
           /\ \A i \in 1..Len(added) :
                 Cardinality({n \in 1..Len(resp.retrieved) :
                                 resp.retrieved[n].content = added[i]})
                     = Cardinality({j \in 1..Len(added) : added[j] = added[i]})

\* The two chunks of one file, added to the empty collection, were both
\* returned under threshold 0 with k = 2.
C7_Witness ==
    /\ Retrieved /\ similarity_threshold = 0 /\ resp.k = 2
    /\ Len(ingested[rsCollection]) = 2
    /\ records[rsCollection][1].metadata.total_chunks = IntValue(2)
    /\ Len(resp.retrieved) = 2

\* C8: the ids of the records of a collection are distinct and none is the
\* id of a deleted record; an upload that succeeded left the collection with
\* its earlier records followed by one new record per chunk, and answered
\* as many ids, distinct and new, as there are chunks.
C8_FreshIdPerChunk ==
    /\ \A c \in CollectionIds :
          /\ \A i, j \in 1..Len(records[c]) : i # j => records[c][i].id # records[c][j].id
          /\ IdsOf(records[c]) \cap removed = {}
    /\ (resp.op = "upload" /\ resp.status = "ok") =>
          LET n == Len(chunk_text(clean_text(resp.text)))
              was == resp.before[dsCollection]
              now == records[dsCollection]
          IN /\ resp.chunk_count = n
             /\ Len(resp.chunk_ids) = n
             /\ Len(now) = Len(was) + n
             /\ IsPrefix(was, now)
             /\ \A i \in 1..n : /\ now[Len(was) + i].id = resp.chunk_ids[i]
                                /\ resp.chunk_ids[i] \notin IdsOf(was) \cup removed

\* A text was added that the collection already held: both records are there.
C8_Witness ==
    /\ resp.op = "upload" /\ resp.status = "ok"
    /\ \E i, j \in 1..Len(records[dsCollection]) :
          /\ i <= Len(resp.before[dsCollection]) /\ j > Len(resp.before[dsCollection])
          /\ records[dsCollection][i].document = records[dsCollection][j].document

\* C9: a step leaves the records of every collection in place and unchanged,
\* adding at most new ones behind them, unless it deletes the collection; the
\* steps of a query and the stats request change no collection.
C9_RecordsNeverMutated ==
    [][/\ \A c \in CollectionIds :
             \/ IsPrefix(records[c], records'[c])
             \/ c \in collections /\ c \notin collections' /\ resp'.op = "clear"
       /\ (req.op = "query" \/ req'.op = "query" \/ (resp'.op = "stats" /\ resp' # resp)) =>
             records' = records /\ collections' = collections]_vars

\* A query found documents in a collection that two uploads had filled.
C9_Witness ==
    /\ resp.op = "query" /\ resp.retrieved # <<>>
    /\ Len(records[rsCollection]) >= 2
    /\ records[rsCollection][1].metadata.filename # records[rsCollection][2].metadata.filename

\* C10: a query whose embedding call or index query failed is answered with
\* an error, and with no documents.
C10_RetrieveFailureReported ==
    (resp.op = "query" /\ resp.failure \in {"embedding", "index"}) =>
        /\ resp.status = "error"
        /\ resp.retrieved = <<>>
        /\ resp.sources = <<>>

\* The index query failed on a collection that held records.
C10_Witness ==
    /\ resp.op = "query" /\ resp.failure = "index"
    /\ resp.before[rsCollection] # <<>>

\* xs can be had from ys by leaving elements out.
RECURSIVE IsSubsequence(_, _)
IsSubsequence(xs, ys) ==
    IF xs = <<>> THEN TRUE
    ELSE IF ys = <<>> THEN FALSE
    ELSE IF Head(xs) = Head(ys) THEN IsSubsequence(Tail(xs), Tail(ys))
    ELSE IsSubsequence(xs, Tail(ys))

\* C11: a query on a collection that holds no records, whose embedding call
\* and index query did not fail, is answered without an error and with no
\* documents, whatever k and the threshold are.
C11_EmptyCollectionQuerySucceeds ==
    (/\ resp.op = "query"
     /\ resp.failure \notin {"embedding", "index"}
     /\ resp.before[rsCollection] = <<>>) =>
        /\ resp.status = "ok"
        /\ resp.raw = <<>>
        /\ resp.retrieved = <<>>
        /\ resp.sources = <<>>

\* A query for MaxK documents under the highest threshold was answered from
\* an empty collection.
C11_Witness ==
    /\ resp.op = "query" /\ resp.status = "ok"
    /\ resp.before[rsCollection] = <<>>
    /\ resp.k = MaxK
    /\ \A t \in Thresholds : t <= similarity_threshold

\* C12: on one answer of the index, the documents kept under a threshold are
\* a subsequence of the documents kept under any lower threshold; the
\* documents of the response lie between those of the thresholds around
\* the configured one.
C12_ThresholdMonotonic ==
    Retrieved =>
        /\ \A t1 \in Thresholds, t2 \in Thresholds :
              t1 <= t2 => IsSubsequence(RetrievedDocs(resp.raw, t2),
                                        RetrievedDocs(resp.raw, t1))
        /\ \A t \in Thresholds :
              /\ t <= similarity_threshold =>
                    IsSubsequence(resp.retrieved, RetrievedDocs(resp.raw, t))
              /\ t >= similarity_threshold =>
                    IsSubsequence(RetrievedDocs(resp.raw, t), resp.retrieved)

\* The response dropped a document of the answer that the lowest threshold
\* keeps, and kept another one.
C12_Witness ==
    /\ Retrieved
    /\ Len(resp.retrieved) = 1
    /\ \E t \in Thresholds : t < similarity_threshold
                              /\ Len(RetrievedDocs(resp.raw, t)) = 2

\* C18: an upload that has come to its index write holds the handle of a
\* live collection, the one queries and stats read.
C18_UploadUsesLiveCollection ==
    (req.op = "upload" /\ Head(req.todo) = "add") =>
        /\ dsCollection \in collections
        /\ dsCollection = rsCollection

\* C19: while an upload or a query waits for its embedding call or its
\* index call, the server can take up another request.
C19_OtherRequestsProceed ==
    req.op \in {"upload", "query"} =>
        ENABLED (\/ GetDocumentStats
                 \/ ClearAllDocuments
                 \/ \E f \in 1..Len(Files) : UploadDocument(f)
                 \/ \E q \in Queries, k \in 1..MaxK, s \in BOOLEAN : QueryDocuments(q, k, s))

InitEnsure ==
    /\ collections = {}
    /\ records = [c \in CollectionIds |-> <<>>]
    /\ made = 0
    /\ dsCollection = 0
    /\ rsCollection = 0
    /\ similarity_threshold = 2
    /\ req = Idle
    /\ resp = NoResponse
    /\ removed = {}
    /\ ingested = [c \in CollectionIds |-> <<>>]
    /\ caller = [p \in Callers |-> [pc |-> "get", collection |-> 0]]
    /\ input = <<>>
    /\ output = NoOutput

\* try: collection = self.client.get_collection(name)
EnsureGet(p) ==
    LET got == GetCollection(collections)
    IN /\ caller[p].pc = "get"
       /\ caller' = [caller EXCEPT ![p] =
                        IF got.raised THEN [pc |-> "create", collection |-> 0]
                        ELSE [pc |-> "done", collection |-> got.collection]]
       /\ UNCHANGED <<collections, records, made, dsCollection, rsCollection,
                      similarity_threshold, req, resp, removed, ingested, input, output>>

\* except (ValueError, NotFoundError): collection = self.client.create_collection(name)
EnsureCreate(p) ==
    LET new == CreateCollection(collections, made)
    IN /\ caller[p].pc = "create"
       /\ caller' = [caller EXCEPT ![p] =
                        IF new.raised THEN [pc |-> "raised", collection |-> 0]
                        ELSE [pc |-> "done", collection |-> new.collection]]
       /\ collections' = new.collections
       /\ made' = IF new.raised THEN made ELSE made + 1
       /\ UNCHANGED <<records, dsCollection, rsCollection, similarity_threshold,
                      req, resp, removed, ingested, input, output>>

\* clear_all_documents in process p: delete_collection, and when it succeeded
\* _get_or_create_collection is entered again.
CallerDelete(p) ==
    LET del == DeleteCollection(collections)
    IN /\ caller[p].pc = "done"
       /\ made < MaxCollections
       /\ collections' = del.collections
       /\ caller' = [caller EXCEPT ![p] =
                        IF del.raised THEN @ ELSE [pc |-> "get", collection |-> 0]]
       /\ UNCHANGED <<records, made, dsCollection, rsCollection, similarity_threshold,
                      req, resp, removed, ingested, input, output>>

NextEnsure ==
    \/ \E p \in Callers : EnsureGet(p)
    \/ \E p \in Callers : EnsureCreate(p)
    \/ \E p \in Callers : CallerDelete(p)

SpecEnsure == InitEnsure /\ [][NextEnsure]_vars

\* C3: two simultaneous _get_or_create_collection calls for a collection that
\* does not exist yet resolve to one collection: no call ends in an error
\* instead of a handle, the callers that are done hold the same live
\* collection, and the store never holds two collections of the name.
C3_EnsureResolvesToOne ==
    /\ \A p \in Callers : caller[p].pc # "raised"
    /\ Cardinality(collections) <= 1

(***************************************************************************)
(* The functions of TextProcessor on their own: a text is drawn, and       *)
(* clean_text, chunk_text and extract_keywords are called with it.         *)
(***************************************************************************)
\* Texts drawn character by character: a letter, the two kinds of
\* whitespace, and a character clean_text deletes.
TextChars == {"a", " ", "\n", "@"}
CharTexts == UNION {[1..n -> TextChars] : n \in 0..MaxTextLen}

\* Texts drawn word by word, the words joined by one blank: two keywords,
\* a capitalised one, a stop word, a word too short and a word with a digit.
WordList ==
    {<<"a", "a", "a">>, <<"b", "b", "b">>, <<"A", "a", "a">>, <<"t", "h", "e">>,
     <<"a", "b">>, <<"a", "a", "a", "1">>}

RECURSIVE JoinWords(_)
JoinWords(ws) ==
    IF ws = <<>> THEN <<>>
    ELSE IF Len(ws) = 1 THEN ws[1]
    ELSE ws[1] \o <<" ">> \o JoinWords(Tail(ws))

WordTexts == {JoinWords(ws) : ws \in UNION {[1..n -> WordList] : n \in 0..MaxWords}}

InitText ==
    /\ collections = {1}
    /\ records = [c \in CollectionIds |-> <<>>]
    /\ made = 1
    /\ dsCollection = 1
    /\ rsCollection = 1
    /\ similarity_threshold = 2
    /\ req = Idle
    /\ resp = NoResponse
    /\ removed = {}
    /\ ingested = [c \in CollectionIds |-> <<>>]
    /\ caller = [p \in Callers |-> [pc |-> "idle", collection |-> 0]]
    /\ input \in CharTexts \cup WordTexts
    /\ output = NoOutput

\* TextProcessor.clean_text(input), and clean_text of what it returned.
CleanText ==
    /\ output' = [NoOutput EXCEPT !.op = "clean_text",
                                  !.cleaned = clean_text(input),
                                  !.again = clean_text(clean_text(input))]
    /\ UNCHANGED <<collections, records, made, dsCollection, rsCollection,
                   similarity_threshold, req, resp, removed, ingested, caller, input>>

\* TextProcessor.chunk_text(input, chunk_size, chunk_overlap).
ChunkText ==
    /\ output' = [NoOutput EXCEPT !.op = "chunk_text", !.chunks = chunk_text(input)]
    /\ UNCHANGED <<collections, records, made, dsCollection, rsCollection,
                   similarity_threshold, req, resp, removed, ingested, caller, input>>

\* TextProcessor.extract_keywords(input, max_keywords).
ExtractKeywords(max_keywords) ==
    /\ output' = [NoOutput EXCEPT !.op = "extract_keywords",
                                  !.keywords = extract_keywords(input, max_keywords),
                                  !.max_keywords = max_keywords]
    /\ UNCHANGED <<collections, records, made, dsCollection, rsCollection,
                   similarity_threshold, req, resp, removed, ingested, caller, input>>

NextText ==
    \/ CleanText
    \/ ChunkText
    \/ \E max_keywords \in 0..MaxKeywords : ExtractKeywords(max_keywords)

SpecText == InitText /\ [][NextText]_vars

\* C13: clean_text applied to its own result returns that result.
C13_CleanTextIdempotent ==
    output.op = "clean_text" => output.again = output.cleaned

\* C14: the result of clean_text neither starts nor ends with whitespace and
\* holds no two whitespace characters in a row.
C14_CleanTextNormalized ==
    output.op = "clean_text" =>
        LET c == output.cleaned
        IN /\ c # <<>> => (c[1] \notin Whitespace /\ c[Len(c)] \notin Whitespace)
           /\ \A i \in 1..(Len(c) - 1) : ~(c[i] \in Whitespace /\ c[i + 1] \in Whitespace)

\* The maximal runs of characters other than whitespace in t, as <<first, last>>.
WordSpans(t) ==
    {s \in (1..Len(t)) \X (1..Len(t)) :
        /\ s[1] <= s[2]
        /\ \A m \in s[1]..s[2] : t[m] \notin Whitespace
        /\ (s[1] = 1 \/ t[s[1] - 1] \in Whitespace)
        /\ (s[2] = Len(t) \/ t[s[2] + 1] \in Whitespace)}

\* The words of t that are longer than chunk_size and hold only characters
\* clean_text keeps.
LongWords(t) ==
    {SubSeq(t, s[1], s[2]) : s \in {w \in WordSpans(t) :
        /\ w[2] - w[1] + 1 > chunk_size
        /\ \A m \in w[1]..w[2] : t[m] \in Allowed}}

C16_NoBlankChunk ==
    output.op = "chunk_text" =>
        \A i \in 1..Len(output.chunks) : Strip(output.chunks[i]) # <<>>

\* The tokens of t, as <<first, last>>: the runs of letters, at least three
\* long, that touch no letter and no other word character.
TokenSpans(t) ==
    {s \in (1..Len(t)) \X (1..Len(t)) :
        /\ s[2] - s[1] + 1 >= 3
        /\ \A m \in s[1]..s[2] : t[m] \in Letters
        /\ (s[1] = 1 \/ t[s[1] - 1] \notin Letters \cup Digits)
        /\ (s[2] = Len(t) \/ t[s[2] + 1] \notin Letters \cup Digits)}

\* keywords is the ranking of the tokens of t: the first max of the distinct
\* lowercased tokens that are no stop words, by descending frequency, a tie
\* by first occurrence.
IsKeywordRanking(t, keywords, max) ==
    LET spans == TokenSpans(t)
        Word(s) == [m \in 1..(s[2] - s[1] + 1) |-> Lower(t[s[1] + m - 1])]
        cands == {Word(s) : s \in spans} \ StopWords
        Freq(w) == Cardinality({s \in spans : Word(s) = w})
        First(w) == CHOOSE i \in {s[1] : s \in {x \in spans : Word(x) = w}} :
                        \A x \in spans : Word(x) = w => i <= x[1]
        Before(v, w) == \/ Freq(v) > Freq(w)
                        \/ Freq(v) = Freq(w) /\ First(v) < First(w)
        kept == {keywords[i] : i \in 1..Len(keywords)}
    IN /\ Len(keywords) = Min(max, Cardinality(cands))
       /\ kept \subseteq cands
       /\ \A i \in 1..Len(keywords), j \in 1..Len(keywords) :
             i < j => Before(keywords[i], keywords[j])
       /\ \A w \in cands \ kept : \A i \in 1..Len(keywords) : Before(keywords[i], w)

\* C17: extract_keywords returns the first max_keywords of the distinct
\* lowercased alphabetic tokens of three letters or more that are no stop
\* words, by descending frequency, a tie by first occurrence: at most
\* max_keywords words, none twice, none a stop word.
C17_KeywordRanking ==
    output.op = "extract_keywords" =>
        /\ IsKeywordRanking(input, output.keywords, output.max_keywords)
        /\ Len(output.keywords) <= output.max_keywords
        /\ \A i \in 1..Len(output.keywords) :
              /\ output.keywords[i] \notin StopWords
              /\ \A j \in 1..Len(output.keywords) :
                    i # j => output.keywords[i] # output.keywords[j]

\* The more frequent keyword was ranked before one that occurs earlier.
C17_Witness ==
    /\ output.op = "extract_keywords"
    /\ output.keywords = << <<"a", "a", "a">>, <<"b", "b", "b">> >>
    /\ input[1] = "b"

====
